---- MODULE Spec2Model ----
(***************************************************************************)
(* Model of src/server.js: an Express application serving an in-memory     *)
(* product catalog.  The state is the module-level array `products`; one   *)
(* action per kind of request, each running the whole middleware/route     *)
(* stack in registration order, as Express does.                           *)
(*                                                                         *)
(* Representation.  A JavaScript value is a record [t, s, n, b]: t is the  *)
(* typeof-like tag, s the characters of a string (a sequence of            *)
(* one-character strings), n a number, b a boolean.  Prices are kept in    *)
(* hundredths (18999.99 is 1899999).  A record of the store is             *)
(* [id, name, description, price, category, inStock] with id an integer    *)
(* and the other fields JavaScript values.                                 *)
(*                                                                         *)
(* Three specifications share the state: Spec handles requests one after  *)
(* the other; Interleaved lets requests arrive while the bodies of others  *)
(* are still being read; Gate applies validateProduct, in front of the     *)
(* handler of line 246, to each payload of a bounded set.                  *)
(*                                                                         *)
(* Line 42 declares `const products` and line 72 assigns to it again; the  *)
(* model takes the catalog of lines 72-78 as the store the routes serve.   *)
(* app.listen is called at lines 268 and 288; the model starts with the    *)
(* whole stack of lines 5-286 registered and the server accepting requests.*)
(*                                                                         *)
(* Record constructors list their fields in the order in which the names  *)
(* first occur in this module, which is the order TLC keeps them in.       *)
(***************************************************************************)
EXTENDS Integers, Sequences, FiniteSets, TLC

(***************************************************************************)
(* JavaScript values                                                       *)
(***************************************************************************)
Undef   == [t |-> "undefined", s |-> <<>>, n |-> 0, b |-> FALSE]
Null    == [t |-> "null",      s |-> <<>>, n |-> 0, b |-> FALSE]
Str(cs) == [t |-> "string",    s |-> cs,   n |-> 0, b |-> FALSE]
Num(k)  == [t |-> "number",    s |-> <<>>, n |-> k, b |-> FALSE]
Bool(x) == [t |-> "boolean",   s |-> <<>>, n |-> 0, b |-> x]

\* !v : undefined, null, "", 0 and false are falsy
Falsy(v) ==
    \/ v.t \in {"undefined", "null"}
    \/ v.t = "string"  /\ v.s = <<>>
    \/ v.t = "number"  /\ v.n = 0
    \/ v.t = "boolean" /\ ~v.b

\* v == null : true of undefined and null only
Nullish(v) == v.t \in {"undefined", "null"}

\* a ?? b
Coalesce(a, b) == IF Nullish(a) THEN b ELSE a

(***************************************************************************)
(* String.prototype.toLowerCase and String.prototype.includes              *)
(***************************************************************************)
UpperCase == <<"A","B","C","D","E","F","G","H","I","J","K","L","M",
               "N","O","P","Q","R","S","T","U","V","W","X","Y","Z">>
LowerCase == <<"a","b","c","d","e","f","g","h","i","j","k","l","m",
               "n","o","p","q","r","s","t","u","v","w","x","y","z">>

toLowerChar(c) ==
    IF \E i \in 1..26 : UpperCase[i] = c
    THEN LowerCase[CHOOSE i \in 1..26 : UpperCase[i] = c]
    ELSE c

toLowerCase(cs) == [i \in 1..Len(cs) |-> toLowerChar(cs[i])]

includes(hay, needle) ==
    \E k \in 0..(Len(hay) - Len(needle)) :
        \A i \in 1..Len(needle) : hay[k + i] = needle[i]

(***************************************************************************)
(* parseInt: optional sign, then the longest prefix of decimal digits;     *)
(* NaN when there is none.  The result is [n, nan].                        *)
(***************************************************************************)
Digits == <<"0","1","2","3","4","5","6","7","8","9">>
IsDigit(c) == \E d \in 1..10 : Digits[d] = c
DigitVal(c) == (CHOOSE d \in 1..10 : Digits[d] = c) - 1
NaN == [n |-> 0, nan |-> TRUE]

RECURSIVE parseDigits(_, _, _)
parseDigits(cs, i, acc) ==
    IF i <= Len(cs) /\ IsDigit(cs[i])
    THEN parseDigits(cs, i + 1, acc * 10 + DigitVal(cs[i]))
    ELSE acc

parseInt(v) ==
    IF v.t # "string" \/ v.s = <<>> THEN NaN
    ELSE LET neg  == v.s[1] = "-"
             from == IF v.s[1] \in {"-", "+"} THEN 2 ELSE 1
         IN  IF from > Len(v.s) \/ ~IsDigit(v.s[from]) THEN NaN
             ELSE LET m == parseDigits(v.s, from, 0)
                  IN  [n |-> IF neg THEN 0 - m ELSE m, nan |-> FALSE]

\* parseInt(x) || d : NaN and 0 are falsy
parseIntOr(v, d) ==
    LET r == parseInt(v) IN IF r.nan \/ r.n = 0 THEN d ELSE r.n

(***************************************************************************)
(* Array.prototype.slice(start, end) and Math.ceil(a / b) for a >= 0, b # 0*)
(***************************************************************************)
Max(a, b) == IF a > b THEN a ELSE b
Min(a, b) == IF a < b THEN a ELSE b

slice(arr, start, end) ==
    LET len == Len(arr)
        k   == IF start < 0 THEN Max(len + start, 0) ELSE Min(start, len)
        fin == IF end < 0 THEN Max(len + end, 0) ELSE Min(end, len)
    IN  IF fin <= k THEN <<>> ELSE [i \in 1..(fin - k) |-> arr[k + i]]

ceilDiv(a, b) ==
    IF b > 0 THEN (a + b - 1) \div b
    ELSE 0 - (a \div (0 - b))

(***************************************************************************)
(* The store: `products`, lines 72-78                                      *)
(***************************************************************************)
Product(i, nm, ds, pr, ct, st) ==
    [id |-> i, name |-> nm, description |-> ds, price |-> pr,
     category |-> ct, inStock |-> st]

InitialProducts ==
    <<
      Product(1, Str(<<"L","a","p","t","o","p">>),
              Str(<<"1","5","-","i","n","c","h"," ","s","c","r","e","e","n">>),
              Num(1899999), Str(<<"E","l","e","c","t","r","o","n","i","c","s">>), Bool(TRUE)),
      Product(2, Str(<<"M","o","u","s","e">>),
              Str(<<"W","i","r","e","l","e","s","s"," ","m","o","u","s","e">>),
              Num(39999), Str(<<"A","c","c","e","s","s","o","r","i","e","s">>), Bool(TRUE)),
      Product(3, Str(<<"K","e","y","b","o","a","r","d">>),
              Str(<<"M","e","c","h","a","n","i","c","a","l"," ","R","G","B"," ","k","e","y","b","o","a","r","d">>),
              Num(129999), Str(<<"A","c","c","e","s","s","o","r","i","e","s">>), Bool(TRUE)),
      Product(4, Str(<<"H","e","a","d","p","h","o","n","e","s">>),
              Str(<<"N","o","i","s","e"," ","c","a","n","c","e","l","l","i","n","g">>),
              Num(259999), Str(<<"E","l","e","c","t","r","o","n","i","c","s">>), Bool(FALSE)),
      Product(5, Str(<<"M","o","n","i","t","o","r">>),
              Str(<<"2","7","-","i","n","c","h"," ","d","i","s","p","l","a","y">>),
              Num(349999), Str(<<"E","l","e","c","t","r","o","n","i","c","s">>), Bool(TRUE))
    >>

\* products.findIndex(p => p.id === parseInt(req.params.id)); 0 stands for -1
findIndex(store, pid) ==
    IF pid.nan \/ ~\E i \in 1..Len(store) : store[i].id = pid.n THEN 0
    ELSE CHOOSE i \in 1..Len(store) :
             /\ store[i].id = pid.n
             /\ \A j \in 1..(i - 1) : store[j].id # pid.n

\* removal that fills the hole with the last element
splice_swapRemove(store, index) ==
    [i \in 1..(Len(store) - 1) |-> IF i = index THEN store[Len(store)] ELSE store[i]]

\* products.splice(index, 1): the array without the element at index
splice(store, index) ==
    [i \in 1..(Len(store) - 1) |-> IF i < index THEN store[i] ELSE store[i + 1]]

\* arr.filter(pred) for a predicate given as the set of matching indices
RECURSIVE filterIdx(_, _, _)
filterIdx(arr, keep, i) ==
    IF i > Len(arr) THEN <<>>
    ELSE (IF i \in keep THEN <<arr[i]>> ELSE <<>>) \o filterIdx(arr, keep, i + 1)

(***************************************************************************)
(* Errors (lines 7-29) and what a handler does with a request              *)
(***************************************************************************)
NoError == [name |-> "", message |-> "", statusCode |-> 0]
NotFoundError(msg)   == [name |-> "NotFoundError",   message |-> msg, statusCode |-> 404]
ValidationError(msg) == [name |-> "ValidationError", message |-> msg, statusCode |-> 400]
UnauthorizedError(msg) == [name |-> "UnauthorizedError", message |-> msg, statusCode |-> 401]
\* what the engine throws on undefined.toLowerCase(); it declares no statusCode
TypeError == [name |-> "TypeError", message |-> "not a function or undefined", statusCode |-> 0]

NoResponse == [status |-> 0, kind |-> "none", body |-> [none |-> TRUE]]
Response(st, kd, bd) == [status |-> st, kind |-> kd, body |-> bd]

\* a handler ends in one of: a response written, next(), next(err) or a
\* throw, or a return without any of these (the request is left hanging)
Respond(res, store) == [store |-> store, res |-> res, act |-> "respond", err |-> NoError]
CallNext(store)     == [store |-> store, res |-> NoResponse, act |-> "next", err |-> NoError]
Raise(err, store)   == [store |-> store, res |-> NoResponse, act |-> "error", err |-> err]
Hang(store)         == [store |-> store, res |-> NoResponse, act |-> "hang", err |-> NoError]

\* req.params.id of the routes /api/products/:id
ParamId(req) == Str(req.path[3])

(***************************************************************************)
(* Middleware                                                              *)
(***************************************************************************)
VALID_API_KEY == Str(<<"1","2","3","4","5">>)

\* express.json() and logger: call next()
passThrough(req, store) == CallNext(store)

authenticate(req, store) ==
    IF ~Falsy(req.apiKey) /\ req.apiKey = VALID_API_KEY
    THEN CallNext(store)
    ELSE Respond(Response(401, "error",
                   [error |-> "Unauthorized: invalid or missing API key"]), store)

\* validateProduct checking the type of inStock before that of price
validateProduct_swapped(req, store) ==
    LET b == req.body IN
    IF \/ Falsy(b.name) \/ Falsy(b.description) \/ Nullish(b.price)
       \/ Falsy(b.category) \/ Nullish(b.inStock)
    THEN Respond(Response(400, "error", [error |-> "All product fields are required"]), store)
    ELSE IF b.inStock.t # "boolean"
    THEN Respond(Response(400, "error", [error |-> "inStock must be boolean"]), store)
    ELSE IF b.price.t # "number"
    THEN Respond(Response(400, "error", [error |-> "Price must be a number"]), store)
    ELSE CallNext(store)

validateProduct(req, store) ==
    LET b == req.body IN
    IF \/ Falsy(b.name) \/ Falsy(b.description) \/ Nullish(b.price)
       \/ Falsy(b.category) \/ Nullish(b.inStock)
    THEN Respond(Response(400, "error", [error |-> "All product fields are required"]), store)
    ELSE IF b.price.t # "number"
    THEN Respond(Response(400, "error", [error |-> "Price must be a number"]), store)
    ELSE IF b.inStock.t # "boolean"
    THEN Respond(Response(400, "error", [error |-> "inStock must be boolean"]), store)
    ELSE CallNext(store)

\* notFound raising the error with its default message
notFound_default(req, store) == Raise(NotFoundError("Not Found"), store)

notFound(req, store) == Raise(NotFoundError("Route not found"), store)

\* errorHandler reading err.status, which no error class sets
errorHandler_status(err) ==
    Response(500, "envelope",
             [message   |-> IF err.message = "" THEN "Internal Server Error" ELSE err.message,
              status    |-> "error",
              errorType |-> IF err.name = "" THEN "Error" ELSE err.name])

errorHandler(err) ==
    Response(IF err.statusCode = 0 THEN 500 ELSE err.statusCode, "envelope",
             [message   |-> IF err.message = "" THEN "Internal Server Error" ELSE err.message,
              status    |-> "error",
              errorType |-> IF err.name = "" THEN "Error" ELSE err.name])

(***************************************************************************)
(* Route handlers, first registrations (lines 84-190)                      *)
(***************************************************************************)
\* the records whose field f is not a string make f.toLowerCase() throw
AllStrings(store, f) == \A i \in 1..Len(store) : store[i][f].t = "string"

\* listProducts cutting the page out of the store itself
listProducts_inPlace(req, store) ==
    LET page  == parseIntOr(req.query.page, 1)
        limit == parseIntOr(req.query.limit, 2)
        start == (page - 1) * limit
    IN  Respond(Response(200, "list",
                  [page       |-> page,
                   limit      |-> limit,
                   totalPages |-> ceilDiv(Len(store), limit),
                   totalItems |-> Len(store),
                   products   |-> slice(store, start, start + limit)]),
                slice(store, start, start + limit))

listProducts(req, store) ==
    LET cat      == req.query.category
        filtered == IF Falsy(cat) THEN store
                    ELSE filterIdx(store,
                           {i \in 1..Len(store) :
                              toLowerCase(store[i].category.s) = toLowerCase(cat.s)}, 1)
        page     == parseIntOr(req.query.page, 1)
        limit    == parseIntOr(req.query.limit, 2)
        start    == (page - 1) * limit
        end      == start + limit
    IN  IF ~Falsy(cat) /\ ~AllStrings(store, "category")
        THEN Raise(TypeError, store)
        ELSE Respond(Response(200, "list",
                       [page       |-> page,
                        limit      |-> limit,
                        totalPages |-> ceilDiv(Len(filtered), limit),
                        totalItems |-> Len(filtered),
                        products   |-> slice(filtered, start, end)]), store)

\* searchProducts whose failure is not handed to next(): nothing is written
searchProducts_silent(req, store) == Hang(store)

searchProducts(req, store) ==
    LET name    == req.query.name
        results == filterIdx(store,
                     {i \in 1..Len(store) :
                        includes(toLowerCase(store[i].name.s), toLowerCase(name.s))}, 1)
    IN  IF Falsy(name)
        THEN Raise(ValidationError("Please provide a search keyword"), store)
        ELSE IF ~AllStrings(store, "name")
        THEN Raise(TypeError, store)
        ELSE IF Len(results) = 0
        THEN Raise(NotFoundError("No products match your search"), store)
        ELSE Respond(Response(200, "search",
                       [results |-> results, count |-> Len(results)]), store)

\* getProduct passing an unknown id on with next()
getProduct_next(req, store) ==
    LET idx == findIndex(store, parseInt(ParamId(req)))
    IN  IF idx = 0
        THEN CallNext(store)
        ELSE Respond(Response(200, "product", store[idx]), store)

getProduct(req, store) ==
    LET idx == findIndex(store, parseInt(ParamId(req)))
    IN  IF idx = 0
        THEN Respond(Response(404, "message", [message |-> "Product not found"]), store)
        ELSE Respond(Response(200, "product", store[idx]), store)

\* createProduct with the id taken from the length of the array
createProduct_lengthId(req, store) ==
    LET newProduct ==
            Product(Len(store) + 1,
                    req.body.name, req.body.description, req.body.price,
                    req.body.category, req.body.inStock)
    IN  Respond(Response(201, "product", newProduct), Append(store, newProduct))

createProduct(req, store) ==
    LET newProduct ==
            Product(IF Len(store) # 0 THEN store[Len(store)].id + 1 ELSE 1,
                    req.body.name, req.body.description, req.body.price,
                    req.body.category, req.body.inStock)
    IN  Respond(Response(201, "product", newProduct), Append(store, newProduct))

\* a || b
Or(a, b) == IF Falsy(a) THEN b ELSE a

\* updateProduct with || in place of ??
updateProduct_or(req, store) ==
    LET idx == findIndex(store, parseInt(ParamId(req)))
        old == store[idx]
        new == Product(old.id,
                       Or(req.body.name, old.name),
                       Or(req.body.description, old.description),
                       Or(req.body.price, old.price),
                       Or(req.body.category, old.category),
                       Or(req.body.inStock, old.inStock))
    IN  IF idx = 0
        THEN Respond(Response(404, "message", [message |-> "Product not found"]), store)
        ELSE Respond(Response(200, "product", new), [store EXCEPT ![idx] = new])

updateProduct(req, store) ==
    LET idx == findIndex(store, parseInt(ParamId(req)))
        old == store[idx]
        new == Product(old.id,
                       Coalesce(req.body.name, old.name),
                       Coalesce(req.body.description, old.description),
                       Coalesce(req.body.price, old.price),
                       Coalesce(req.body.category, old.category),
                       Coalesce(req.body.inStock, old.inStock))
    IN  IF idx = 0
        THEN Respond(Response(404, "message", [message |-> "Product not found"]), store)
        ELSE Respond(Response(200, "product", new), [store EXCEPT ![idx] = new])

\* deleteProduct removing the last record whatever the index found
deleteProduct_last(req, store) ==
    LET idx == findIndex(store, parseInt(ParamId(req)))
    IN  IF idx = 0
        THEN Respond(Response(404, "message", [message |-> "Product not found"]), store)
        ELSE Respond(Response(200, "deleted",
                       [message        |-> "Product deleted successfully",
                        deletedProduct |-> <<store[idx]>>]), splice(store, Len(store)))

deleteProduct(req, store) ==
    LET idx == findIndex(store, parseInt(ParamId(req)))
    IN  IF idx = 0
        THEN Respond(Response(404, "message", [message |-> "Product not found"]), store)
        ELSE Respond(Response(200, "deleted",
                       [message        |-> "Product deleted successfully",
                        deletedProduct |-> <<store[idx]>>]), splice(store, idx))

\* String(v), the property key acc[p.category] uses
RECURSIVE numToChars(_)
numToChars(k) ==
    IF k < 0 THEN <<"-">> \o numToChars(0 - k)
    ELSE IF k < 10 THEN <<Digits[k + 1]>>
    ELSE numToChars(k \div 10) \o <<Digits[(k % 10) + 1]>>

ToKey(v) ==
    CASE v.t = "string"    -> v.s
      [] v.t = "undefined" -> <<"u","n","d","e","f","i","n","e","d">>
      [] v.t = "null"      -> <<"n","u","l","l">>
      [] v.t = "boolean"   -> IF v.b THEN <<"t","r","u","e">> ELSE <<"f","a","l","s","e">>
      [] v.t = "number"    -> numToChars(v.n)

\* products.reduce(...): each key mapped to the number of records having it
countByCategory(store) ==
    [k \in {ToKey(store[i].category) : i \in 1..Len(store)} |->
        Cardinality({i \in 1..Len(store) : ToKey(store[i].category) = k})]

getStats(req, store) ==
    Respond(Response(200, "stats",
              [countByCategory |-> countByCategory(store),
               totalProducts   |-> Len(store)]), store)

(***************************************************************************)
(* Route handlers, second registrations (lines 227-266)                    *)
(***************************************************************************)
\* line 227: the handler body is empty, it neither responds nor calls next
emptyHandler(req, store) == Hang(store)

publicList(req, store) == Respond(Response(200, "array", store), store)

getProduct2(req, store) ==
    LET idx == findIndex(store, parseInt(ParamId(req)))
    IN  IF idx = 0
        THEN Respond(Response(404, "error", [error |-> "Product not found"]), store)
        ELSE Respond(Response(200, "product", store[idx]), store)

\* { id: products.length + 1, ...req.body }: a body id overrides the computed one
createProduct2(req, store) ==
    LET newProduct ==
            Product(IF req.body.id.t = "number" THEN req.body.id.n ELSE Len(store) + 1,
                    req.body.name, req.body.description, req.body.price,
                    req.body.category, req.body.inStock)
    IN  Respond(Response(201, "product", newProduct), Append(store, newProduct))

\* Object.assign(product, req.body): every field the body has overwrites
Assign(old, new) == IF new.t = "undefined" THEN old ELSE new

updateProduct2(req, store) ==
    LET idx == findIndex(store, parseInt(ParamId(req)))
        old == store[idx]
        new == Product(IF req.body.id.t = "number" THEN req.body.id.n ELSE old.id,
                       Assign(old.name, req.body.name),
                       Assign(old.description, req.body.description),
                       Assign(old.price, req.body.price),
                       Assign(old.category, req.body.category),
                       Assign(old.inStock, req.body.inStock))
    IN  IF idx = 0
        THEN Respond(Response(404, "error", [error |-> "Product not found"]), store)
        ELSE Respond(Response(200, "product", new), [store EXCEPT ![idx] = new])

deleteProduct2(req, store) ==
    LET idx == findIndex(store, parseInt(ParamId(req)))
    IN  IF idx = 0
        THEN Respond(Response(404, "error", [error |-> "Product not found"]), store)
        ELSE Respond(Response(200, "deleted2",
                       [message |-> "Product deleted",
                        deleted |-> <<store[idx]>>]), splice(store, idx))

(***************************************************************************)
(* The application stack in registration order                             *)
(***************************************************************************)
API      == <<"a","p","i">>
PRODUCTS == <<"p","r","o","d","u","c","t","s">>
SEARCH   == <<"s","e","a","r","c","h">>
STATS    == <<"s","t","a","t","s">>
ID       == <<":","i","d">>
Users    == <<"u","s","e","r","s">>

Use(ln, h) ==
    [path |-> <<>>, line |-> ln, use |-> TRUE, onError |-> FALSE,
     method |-> "*", chain |-> <<h>>]
Route(ln, m, p, hs) ==
    [path |-> p, line |-> ln, use |-> FALSE, onError |-> FALSE,
     method |-> m, chain |-> hs]
UseError(ln, h) ==
    [path |-> <<>>, line |-> ln, use |-> TRUE, onError |-> TRUE,
     method |-> "*", chain |-> <<h>>]

Stack ==
    << Use(5, "json"),
       Use(35, "logger"),
       Use(39, "json"),
       Route(84,  "GET",    <<API, PRODUCTS>>,         <<"listProducts">>),
       Route(111, "GET",    <<API, PRODUCTS, SEARCH>>, <<"searchProducts">>),
       Route(126, "GET",    <<API, PRODUCTS, ID>>,     <<"getProduct">>),
       Route(135, "POST",   <<API, PRODUCTS>>,         <<"createProduct">>),
       Route(150, "PUT",    <<API, PRODUCTS, ID>>,     <<"updateProduct">>),
       Route(167, "DELETE", <<API, PRODUCTS, ID>>,     <<"deleteProduct">>),
       Route(178, "GET",    <<API, PRODUCTS, STATS>>,  <<"getStats">>),
       Use(224, "authenticate"),
       Route(227, "POST",   <<API, PRODUCTS>>,         <<"validateProduct", "emptyHandler">>),
       Route(234, "GET",    <<API, PRODUCTS>>,         <<"publicList">>),
       Route(239, "GET",    <<API, PRODUCTS, ID>>,     <<"getProduct2">>),
       Route(246, "POST",   <<API, PRODUCTS>>,
                  <<"authenticate", "validateProduct", "createProduct2">>),
       Route(253, "PUT",    <<API, PRODUCTS, ID>>,
                  <<"authenticate", "validateProduct", "updateProduct2">>),
       Route(261, "DELETE", <<API, PRODUCTS, ID>>,     <<"authenticate", "deleteProduct2">>),
       Use(272, "notFound"),
       UseError(276, "errorHandler") >>

\* a path pattern matches segment by segment; :id matches any one segment
MatchPath(pattern, path) ==
    /\ Len(pattern) = Len(path)
    /\ \A k \in 1..Len(pattern) : pattern[k] = ID \/ pattern[k] = path[k]

Matches(layer, req) ==
    \/ layer.use
    \/ layer.method = req.method /\ MatchPath(layer.path, req.path)

Call(h, req, store) ==
    CASE h = "json"            -> passThrough(req, store)
      [] h = "logger"          -> passThrough(req, store)
      [] h = "authenticate"    -> authenticate(req, store)
      [] h = "validateProduct" -> validateProduct(req, store)
      [] h = "listProducts"    -> listProducts(req, store)
      [] h = "searchProducts"  -> searchProducts(req, store)
      [] h = "getProduct"      -> getProduct(req, store)
      [] h = "createProduct"   -> createProduct(req, store)
      [] h = "updateProduct"   -> updateProduct(req, store)
      [] h = "deleteProduct"   -> deleteProduct(req, store)
      [] h = "getStats"        -> getStats(req, store)
      [] h = "emptyHandler"    -> emptyHandler(req, store)
      [] h = "publicList"      -> publicList(req, store)
      [] h = "getProduct2"     -> getProduct2(req, store)
      [] h = "createProduct2"  -> createProduct2(req, store)
      [] h = "updateProduct2"  -> updateProduct2(req, store)
      [] h = "deleteProduct2"  -> deleteProduct2(req, store)
      [] h = "notFound"        -> notFound(req, store)

\* the entry ran keeps for handler j of layer i: how it ended, the error it
\* raised, its registration line and its name
Ran(i, j, out) ==
    [act |-> out.act, err |-> out.err,
     line |-> Stack[i].line, handler |-> Stack[i].chain[j]]

\* the handlers of one layer, in order; next() inside a route moves to the
\* next handler of the route and, after the last one, leaves the route.
\* ran lists the handlers executed so far.
\* (the handler's outcome is bound by CHOOSE so that it is computed once)
RECURSIVE RunChain(_, _, _, _, _)
RunChain(i, j, req, store, ran) ==
    CHOOSE result \in
        { IF out.act = "next" /\ j < Len(Stack[i].chain)
          THEN RunChain(i, j + 1, req, out.store, Append(ran, Ran(i, j, out)))
          ELSE [out |-> out, ran |-> Append(ran, Ran(i, j, out))] :
            out \in {Call(Stack[i].chain[j], req, store)} } : TRUE

\* next(err): the first error-handling middleware registered after layer i
\* answers; without one Express's own final handler answers 500
RECURSIVE DispatchError(_, _, _, _)
DispatchError(i, err, store, ran) ==
    IF i > Len(Stack)
    THEN [store |-> store,
          res |-> Response(IF err.statusCode = 0 THEN 500 ELSE err.statusCode,
                           "final", [none |-> TRUE]),
          ran |-> ran]
    ELSE IF Stack[i].onError
    THEN [store |-> store, res |-> errorHandler(err),
          ran |-> Append(ran, Ran(i, 1, Respond(errorHandler(err), store)))]
    ELSE DispatchError(i + 1, err, store, ran)

\* the layers are tried from layer i on; the first that matches runs
RECURSIVE Dispatch(_, _, _, _)
Dispatch(i, req, store, ran) ==
    IF i > Len(Stack)
    THEN [store |-> store, res |-> Response(404, "final", [none |-> TRUE]), ran |-> ran]
    ELSE IF Stack[i].onError \/ ~Matches(Stack[i], req)
    THEN Dispatch(i + 1, req, store, ran)
    ELSE CHOOSE result \in
           { CASE r.out.act = "next"    -> Dispatch(i + 1, req, r.out.store, r.ran)
               [] r.out.act = "error"   -> DispatchError(i + 1, r.out.err, r.out.store, r.ran)
               [] r.out.act = "respond" -> [store |-> r.out.store, res |-> r.out.res, ran |-> r.ran]
               [] r.out.act = "hang"    -> [store |-> r.out.store, res |-> NoResponse, ran |-> r.ran] :
               r \in {RunChain(i, 1, req, store, ran)} } : TRUE

HandleRequest(req, store) == Dispatch(1, req, store, <<>>)

(***************************************************************************)
(* Requests                                                                *)
(***************************************************************************)
\* how many requests a run of the model handles
MaxRequests == 3

Query(cat, pg, lim, nm) == [name |-> nm, category |-> cat, page |-> pg, limit |-> lim]
Body(i, nm, ds, pr, ct, st) ==
    [id |-> i, name |-> nm, description |-> ds, price |-> pr,
     category |-> ct, inStock |-> st]
Request(m, p, key, q, b) ==
    [body |-> b, path |-> p, apiKey |-> key, query |-> q, method |-> m]

EmptyQuery == Query(Undef, Undef, Undef, Undef)
EmptyBody  == Body(Undef, Undef, Undef, Undef, Undef, Undef)
NoRequest  == Request("", <<>>, Undef, EmptyQuery, EmptyBody)

\* the x-api-key header: absent, the secret, another value
Keys == {Undef, VALID_API_KEY, Str(<<"k","e","y">>)}

Tablet  == Str(<<"T","a","b","l","e","t">>)
Toys    == Str(<<"T","o","y","s">>)
Slate   == Str(<<"S","l","a","t","e">>)

\* a complete product; {}; {price: 999}; and
\* {id: 9, name: null, price: "abc", inStock: false}
ValidBody     == Body(Undef, Tablet, Slate, Num(50000), Toys, Bool(TRUE))
PriceOnlyBody == Body(Undef, Undef, Undef, Num(99900), Undef, Undef)
OddBody       == Body(Num(9), Null, Undef, Str(<<"a","b","c">>), Undef, Bool(FALSE))

Bodies == {ValidBody, EmptyBody, PriceOnlyBody, OddBody}

\* the last segment of /api/products/<segment>
IdSegments == {<<"1">>, <<"5">>, <<"6">>}

\* ?category=&page=&limit= of the list requests
Electronics == Str(<<"e","l","e","c","t","r","o","n","i","c","s">>)
ListQueries ==
    { Query(Undef, Undef, Undef, Undef),
      Query(Undef, Str(<<"2">>), Str(<<"2">>), Undef),
      Query(Electronics, Undef, Undef, Undef),
      Query(Electronics, Str(<<"2">>), Str(<<"x">>), Undef),
      Query(Undef, Str(<<"-","1">>), Str(<<"2">>), Undef),
      Query(Undef, Str(<<"x">>), Str(<<"-","2">>), Undef) }
NameParams     == {Undef, Str(<<"M","O">>), Str(<<"z","z">>)}

(***************************************************************************)
(* State                                                                   *)
(***************************************************************************)
VARIABLES
    products,   \* the store
    request,    \* the last request handled
    response,   \* the response it got (NoResponse: none was written)
    ran,        \* the handlers that ran for it, in order
    before,     \* the store just before it was handled
    assigned,   \* every id the store has assigned so far
    nReq,       \* how many requests have been handled
    inflight,   \* the requests received whose body is still being read
    served      \* the arrival numbers of the requests that got a response

vars == <<products, request, response, ran, before, assigned, nReq,
          inflight, served>>

Init ==
    /\ products = InitialProducts
    /\ request = NoRequest
    /\ response = NoResponse
    /\ ran = <<>>
    /\ before = InitialProducts
    /\ assigned = {InitialProducts[i].id : i \in 1..Len(InitialProducts)}
    /\ nReq = 0
    /\ inflight = {}
    /\ served = {}

\* a request as received: its arrival number and the store at that moment
Received(k, req, store) == [req |-> req, no |-> k, seen |-> store]

\* a handler working on the array as it was when the request arrived
ReadProducts_stale(current, seen) == seen

\* the store a handler works on is the module-level array as it is when the
\* handler runs
ReadProducts(current, seen) == current

\* the middleware stack runs for one request, from express.json()'s next()
\* to the response, without yielding
Serve(e) ==
    \E r \in {HandleRequest(e.req, ReadProducts(products, e.seen))} :
        /\ products' = r.store
        /\ request' = e.req
        /\ response' = r.res
        /\ ran' = r.ran
        /\ before' = products
        /\ assigned' = IF r.res.status = 201
                       THEN assigned \cup {r.res.body.id} ELSE assigned
        /\ nReq' = nReq + 1
        /\ served' = IF r.res.kind = "none" THEN served ELSE served \cup {e.no}

\* one request handled to completion
Handle(req) ==
    /\ nReq < MaxRequests
    /\ Serve(Received(nReq + 1, req, products))
    /\ UNCHANGED inflight

ListRequest ==
    \E key \in Keys, q \in ListQueries :
        Handle(Request("GET", <<API, PRODUCTS>>, key, q, EmptyBody))

SearchRequest ==
    \E key \in Keys, nm \in NameParams :
        Handle(Request("GET", <<API, PRODUCTS, SEARCH>>, key,
                       Query(Undef, Undef, Undef, nm), EmptyBody))

GetRequest ==
    \E key \in Keys, seg \in IdSegments :
        Handle(Request("GET", <<API, PRODUCTS, seg>>, key, EmptyQuery, EmptyBody))

StatsRequest ==
    \E key \in Keys :
        Handle(Request("GET", <<API, PRODUCTS, STATS>>, key, EmptyQuery, EmptyBody))

PostRequest ==
    \E key \in Keys, b \in Bodies :
        Handle(Request("POST", <<API, PRODUCTS>>, key, EmptyQuery, b))

PutRequest ==
    \E key \in Keys, seg \in IdSegments, b \in Bodies :
        Handle(Request("PUT", <<API, PRODUCTS, seg>>, key, EmptyQuery, b))

DeleteRequest ==
    \E key \in Keys, seg \in IdSegments :
        Handle(Request("DELETE", <<API, PRODUCTS, seg>>, key, EmptyQuery, EmptyBody))

\* methods and paths no route is registered for
Unrouted ==
    { <<"DELETE", <<API, PRODUCTS>> >>,
      <<"GET", <<API, Users>> >>,
      <<"POST", <<API, PRODUCTS, <<"1">>, STATS>> >> }

OtherRequest ==
    \E key \in Keys, mp \in Unrouted :
        Handle(Request(mp[1], mp[2], key, EmptyQuery, EmptyBody))

Next ==
    \/ ListRequest
    \/ SearchRequest
    \/ GetRequest
    \/ StatsRequest
    \/ PostRequest
    \/ PutRequest
    \/ DeleteRequest
    \/ OtherRequest

Spec == Init /\ [][Next]_vars

(***************************************************************************)
(* Requests in flight together: express.json() reads a request's body     *)
(* asynchronously, so other requests can arrive and be answered before    *)
(* the stack goes on for it                                               *)
(***************************************************************************)
\* how many requests arrive in a run of the interleaved model
MaxArrivals == 2

Arrivals ==
    { Request("POST", <<API, PRODUCTS>>, key, EmptyQuery, b) :
        key \in {Undef, VALID_API_KEY}, b \in {ValidBody, PriceOnlyBody} }
    \cup { Request("DELETE", <<API, PRODUCTS, <<"5">> >>, VALID_API_KEY, EmptyQuery, EmptyBody),
           Request("DELETE", <<API, PRODUCTS, <<"1">> >>, Undef, EmptyQuery, EmptyBody),
           Request("GET", <<API, PRODUCTS, SEARCH>>, Undef, EmptyQuery, EmptyBody),
           Request("GET", <<API, Users>>, VALID_API_KEY, EmptyQuery, EmptyBody),
           Request("GET", <<API, Users>>, Undef, EmptyQuery, EmptyBody) }

Arrived == nReq + Cardinality(inflight)

\* a request is received; its body starts being read
Arrive ==
    /\ Arrived < MaxArrivals
    /\ \E req \in Arrivals :
        inflight' = inflight \cup {Received(Arrived + 1, req, products)}
    /\ UNCHANGED <<products, request, response, ran, before, assigned, nReq, served>>

\* the body of the request with arrival number k has been read: the stack
\* runs for it
Complete(k) ==
    \E e \in inflight :
        /\ e.no = k
        /\ Serve(e)
        /\ inflight' = inflight \ {e}

NextInterleaved ==
    \/ Arrive
    \/ \E k \in 1..MaxArrivals : Complete(k)

\* the event loop runs the callback of every body that has been read
Interleaved ==
    /\ Init /\ [][NextInterleaved]_vars
    /\ \A k \in 1..MaxArrivals : WF_vars(Complete(k))

(***************************************************************************)
(* validateProduct applied to every payload of a bounded set, in front of *)
(* the handler it guards at line 246                                       *)
(***************************************************************************)
Empty == Str(<<>>)
Abc   == Str(<<"a","b","c">>)

GateBodies ==
    { Body(Undef, nm, ds, pr, ct, st) :
        nm \in {Undef, Null, Empty, Num(0), Tablet},
        ds \in {Undef, Slate},
        pr \in {Undef, Null, Num(0), Num(50000), Abc},
        ct \in {Empty, Toys},
        st \in {Undef, Null, Bool(FALSE), Bool(TRUE), Abc} }

\* the registration validateProduct guards a create handler in
GatedCreate == CHOOSE i \in 1..Len(Stack) : Stack[i].line = 246

GateInit ==
    /\ products = InitialProducts
    /\ request \in { Request("POST", <<API, PRODUCTS>>, VALID_API_KEY, EmptyQuery, b) :
                        b \in GateBodies }
    /\ response = NoResponse
    /\ ran = <<>>
    /\ before = InitialProducts
    /\ assigned = {InitialProducts[i].id : i \in 1..Len(InitialProducts)}
    /\ nReq = 0
    /\ inflight = {}
    /\ served = {}

\* authenticate, validateProduct and the create handler of line 246 run for
\* the payload
RunGate ==
    /\ nReq = 0
    /\ \E r \in {RunChain(GatedCreate, 1, request, products, <<>>)} :
        /\ products' = r.out.store
        /\ response' = r.out.res
        /\ ran' = r.ran
        /\ before' = products
        /\ assigned' = IF r.out.res.status = 201
                       THEN assigned \cup {r.out.res.body.id} ELSE assigned
        /\ nReq' = 1
        /\ served' = IF r.out.res.kind = "none" THEN served ELSE {1}
    /\ UNCHANGED <<request, inflight>>

Gate == GateInit /\ [][RunGate]_vars

(***************************************************************************)
(* Properties                                                              *)
(***************************************************************************)
Handled == nReq > 0

IsRequest(m, p) == Handled /\ request.method = m /\ request.path = p
IsIdRequest(m) ==
    /\ Handled /\ request.method = m /\ Len(request.path) = 3
    /\ request.path[1] = API /\ request.path[2] = PRODUCTS
    /\ request.path[3] \in IdSegments

HasValidKey == request.apiKey.t = "string" /\ request.apiKey.s = <<"1","2","3","4","5">>

HasId(store, k) == \E i \in 1..Len(store) : store[i].id = k

\* C1: a request whose x-api-key header is absent or differs from the secret
\* gets status 401 and leaves the store as it was.
C1_UnauthorizedRejected ==
    (Handled /\ ~HasValidKey) => (response.status = 401 /\ products = before)

\* C2: the id a successful POST returns is greater than every id the store
\* assigned before, ids of deleted records included.
C2_IdsNeverReused ==
    [][(nReq' = nReq + 1 /\ request'.method = "POST" /\ response'.status = 201)
          => \A k \in assigned : response'.body.id > k]_vars

\* C3: no two records of the store have the same id.
C3_UniqueIds ==
    \A i, j \in 1..Len(products) : i # j => products[i].id # products[j].id

\* a record was created after another one had been deleted
C3_Witness ==
    /\ IsRequest("POST", <<API, PRODUCTS>>) /\ response.status = 201
    /\ Len(products) = Len(before) + 1
    /\ \E k \in assigned : ~HasId(before, k)

\* the route registrations a request matches, as positions in the stack
MatchingRoutes(req) ==
    {i \in 1..Len(Stack) : ~Stack[i].use /\ Matches(Stack[i], req)}
RouteLines == {Stack[i].line : i \in {k \in 1..Len(Stack) : ~Stack[k].use}}
\* registrations that repeat the method and path of an earlier one
ShadowedLines ==
    {Stack[i].line : i \in {k \in 1..Len(Stack) :
        /\ ~Stack[k].use
        /\ \E j \in 1..(k - 1) : /\ ~Stack[j].use
                                 /\ Stack[j].method = Stack[k].method
                                 /\ Stack[j].path = Stack[k].path}}
RanLines == {ran[k].line : k \in 1..Len(ran)}

\* C4: the route handlers that run for a request are those of the earliest
\* registration matching its method and path, and a registration repeating
\* the method and path of an earlier one never runs.
C4_FirstRegisteredWins ==
    Handled =>
        /\ MatchingRoutes(request) # {} =>
              LET first == CHOOSE i \in MatchingRoutes(request) :
                               \A j \in MatchingRoutes(request) : i <= j
              IN  RanLines \cap RouteLines = {Stack[first].line}
        /\ MatchingRoutes(request) = {} => RanLines \cap RouteLines = {}
        /\ RanLines \cap ShadowedLines = {}

\* a request that three registrations match was answered by the first
C4_Witness ==
    /\ IsRequest("POST", <<API, PRODUCTS>>)
    /\ Cardinality(MatchingRoutes(request)) = 3
    /\ 135 \in RanLines
    /\ response.status = 201

\* a body that passes the validation rules of the claim
ValidPayload(b) ==
    /\ \A f \in {"name", "description", "price", "category", "inStock"} :
           b[f].t \notin {"undefined", "null"}
    /\ b.price.t = "number"
    /\ b.inStock.t = "boolean"

\* C5: a POST or PUT whose body fails validation gets 400 and leaves the
\* store as it was.
C5_InvalidBodyRejected ==
    ((IsRequest("POST", <<API, PRODUCTS>>) \/ IsIdRequest("PUT"))
        /\ HasValidKey /\ ~ValidPayload(request.body))
    => (response.status = 400 /\ products = before)

\* the number of records of a store having the category of record i
SameCategory(store, i) ==
    Cardinality({j \in 1..Len(store) : store[j].category = store[i].category})

\* C6: GET /api/products/stats with a valid key answers with totalProducts,
\* the size of the store, and countByCategory, the number of records of each
\* category, and it is the stats handler that answers.
C6_StatsAnswered ==
    (IsRequest("GET", <<API, PRODUCTS, STATS>>) /\ HasValidKey) =>
        /\ response.status = 200 /\ response.kind = "stats"
        /\ response.body.totalProducts = Len(before)
        /\ DOMAIN response.body.countByCategory
              = {ToKey(before[i].category) : i \in 1..Len(before)}
        /\ \A i \in 1..Len(before) :
              response.body.countByCategory[ToKey(before[i].category)]
                 = SameCategory(before, i)
        /\ 178 \in RanLines /\ 126 \notin RanLines

\* requests sent with the secret, used to ask what the server would answer
GetById(seg) ==
    Request("GET", <<API, PRODUCTS, seg>>, VALID_API_KEY, EmptyQuery, EmptyBody)
StatsOf(store) ==
    HandleRequest(Request("GET", <<API, PRODUCTS, STATS>>, VALID_API_KEY,
                          EmptyQuery, EmptyBody), store).res
\* the count a stats response reports for a category (0: category not listed)
CountIn(res, cat) ==
    IF ToKey(cat) \in DOMAIN res.body.countByCategory
    THEN res.body.countByCategory[ToKey(cat)] ELSE 0

\* C7: after a successful DELETE the record is gone: GET of an id no record
\* has answers 404, and the count GET /api/products/stats reports for the
\* deleted record's category is one lower than before the delete.
C7_DeleteRemoves ==
    /\ \A seg \in IdSegments :
          ~HasId(products, parseInt(Str(seg)).n)
             => HandleRequest(GetById(seg), products).res.status = 404
    /\ (IsIdRequest("DELETE") /\ response.status = 200) =>
          LET gone == response.body.deletedProduct[1]
          IN  /\ ~HasId(products, gone.id)
              /\ StatsOf(before).kind = "stats"
              /\ StatsOf(products).kind = "stats"
              /\ CountIn(StatsOf(products), gone.category)
                    = CountIn(StatsOf(before), gone.category) - 1

Fields == {"name", "description", "price", "category", "inStock"}

\* C8: PUT on an existing record keeps every field the body leaves out or
\* sets to null, takes every field the body supplies, keeps the id, and
\* changes no other record nor the number of records.
C8_PartialUpdate ==
    (IsIdRequest("PUT") /\ response.status = 200) =>
        /\ Len(products) = Len(before)
        /\ \A i \in 1..Len(before) :
              IF before[i].id = parseInt(Str(request.path[3])).n
              THEN /\ products[i].id = before[i].id
                   /\ \A f \in Fields :
                         products[i][f] =
                            IF request.body[f].t \in {"undefined", "null"}
                            THEN before[i][f] ELSE request.body[f]
              ELSE products[i] = before[i]

\* a body with a null field, a supplied false and an id changed a record
C8_Witness ==
    /\ IsIdRequest("PUT") /\ response.status = 200
    /\ request.body = OddBody
    /\ products # before

\* a query value that is a decimal number, possibly negative
IsNumeric(v) ==
    /\ v.t = "string" /\ v.s # <<>>
    /\ LET from == IF v.s[1] = "-" THEN 2 ELSE 1
       IN  /\ from <= Len(v.s)
           /\ \A k \in from..Len(v.s) : IsDigit(v.s[k])
\* the records at the 0-based positions lo .. hi-1 of a sequence
Positions(arr, lo, hi) ==
    filterIdx(arr, {i \in 1..Len(arr) : lo <= i - 1 /\ i - 1 < hi}, 1)

\* C9: the list response has totalItems = the number of records whose
\* category equals the filter case-insensitively (all without a filter),
\* totalPages = ceil(totalItems / limit) and products = the positions
\* [(page-1)*limit, page*limit) of the filtered records; page defaults to 1
\* and limit to 2; page 2 with limit 2 of the initial catalog is records 3-4.
C9_ListPagination ==
    (IsRequest("GET", <<API, PRODUCTS>>) /\ HasValidKey) =>
        LET q        == request.query
            page     == IF IsNumeric(q.page) THEN parseInt(q.page).n ELSE 1
            limit    == IF IsNumeric(q.limit) THEN parseInt(q.limit).n ELSE 2
            filtered == IF q.category.t = "undefined" THEN before
                        ELSE filterIdx(before,
                               {i \in 1..Len(before) :
                                  /\ before[i].category.t = "string"
                                  /\ toLowerCase(before[i].category.s)
                                        = toLowerCase(q.category.s)}, 1)
        IN  /\ response.status = 200 /\ response.kind = "list"
            /\ response.body.page = page
            /\ response.body.limit = limit
            /\ response.body.totalItems = Len(filtered)
            /\ response.body.totalPages = ceilDiv(Len(filtered), limit)
            /\ response.body.products
                  = Positions(filtered, (page - 1) * limit, page * limit)
            /\ (/\ before = InitialProducts /\ q.category.t = "undefined"
                /\ q.page = Str(<<"2">>) /\ q.limit = Str(<<"2">>))
               => /\ response.body.products = <<InitialProducts[3], InitialProducts[4]>>
                  /\ response.body.totalPages = 3
                  /\ response.body.totalItems = 5

\* C10: a search answers 400 ValidationError without a keyword, 404
\* NotFoundError when no name contains the keyword case-insensitively, and
\* otherwise the matching records with their count; the store is unchanged.
C10_SearchOutcomes ==
    (IsRequest("GET", <<API, PRODUCTS, SEARCH>>) /\ HasValidKey) =>
        LET keyword == request.query.name
            matches == filterIdx(before,
                          {i \in 1..Len(before) :
                             /\ before[i].name.t = "string"
                             /\ includes(toLowerCase(before[i].name.s),
                                         toLowerCase(keyword.s))}, 1)
        IN  /\ products = before
            /\ IF keyword.t = "undefined" \/ keyword.s = <<>>
               THEN /\ response.status = 400 /\ response.kind = "envelope"
                    /\ response.body.errorType = "ValidationError"
               ELSE IF Len(matches) = 0
               THEN /\ response.status = 404 /\ response.kind = "envelope"
                    /\ response.body.errorType = "NotFoundError"
               ELSE /\ response.status = 200 /\ response.kind = "search"
                    /\ response.body.results = matches
                    /\ response.body.count = Len(response.body.results)

IsUnrouted == Handled /\ MatchingRoutes(request) = {}

RouteNotFound ==
    /\ response.status = 404 /\ response.kind = "envelope"
    /\ response.body.status = "error"
    /\ response.body.errorType = "NotFoundError"
    /\ response.body.message = "Route not found"
    /\ \E k \in 1..Len(ran) : ran[k].handler = "notFound"

\* C11 as stated: every request that matches no registered route reaches the
\* not-found handler and gets 404 {status: "error", errorType:
\* "NotFoundError", message: "Route not found"}.
C11_UnroutedGets404 == IsUnrouted => RouteNotFound

\* C11 amended: every request that matches no registered route and carries
\* the valid x-api-key reaches the not-found handler and gets that 404;
\* without the valid key authenticate answers 401 first.
C11_UnroutedWithKeyGets404 ==
    IsUnrouted =>
        IF HasValidKey THEN RouteNotFound
        ELSE /\ response.status = 401
             /\ \A k \in 1..Len(ran) : ran[k].handler # "notFound"

\* an unrouted request with the valid key was answered
C11_Witness == IsUnrouted /\ HasValidKey /\ response.status = 404

FailureStatuses == {400, 401, 404, 500}

\* C12 as stated: every failure response (400, 401, 404 or 500) produced by
\* any endpoint or middleware carries a JSON body with the fields status,
\* errorType and message.
C12_FailuresUseEnvelope ==
    (Handled /\ response.status \in FailureStatuses) =>
        /\ DOMAIN response.body = {"status", "errorType", "message"}
        /\ response.body.status = "error"

Responded == {k \in 1..Len(ran) : ran[k].act = "respond"}

\* the last request handled got one response, and the error middleware ran
\* only while none had been written
OneResponse ==
    /\ response.kind # "none"
    /\ Cardinality(Responded) = 1
    /\ \A k \in 1..Len(ran) :
         ran[k].handler = "errorHandler" =>
            \A j \in 1..(k - 1) : ran[j].act # "respond"

Pending(k) == \E e \in inflight : e.no = k

\* C13: every request eventually receives exactly one response, never zero
\* and never two, and the error middleware is never entered for a request
\* after a response to it was written.
C13_ExactlyOneResponse ==
    /\ [](Handled => OneResponse)
    /\ [](\A k \in served : ~Pending(k))
    /\ \A k \in 1..MaxArrivals : Pending(k) ~> (k \in served)

\* the error middleware answered a request while another one was in flight
C13_Witness ==
    /\ Handled /\ inflight # {}
    /\ ran[Len(ran)].handler = "errorHandler"
    /\ served = {Arrived - Cardinality(inflight)}

Created == nReq' = nReq + 1 /\ request'.method = "POST" /\ response'.status = 201

\* C14: when several POST /api/products requests are in flight together and
\* their asynchronous phases interleave, each create reads the last id and
\* appends its record in one uninterrupted step: the new id is carried by no
\* record of the store and no record is lost.
C14_CreateIsAtomic ==
    [][ Created =>
          /\ products' = Append(products, response'.body)
          /\ \A i \in 1..Len(products) : products[i].id # response'.body.id ]_vars

\* a create was answered while another POST, received before the store last
\* changed, was still in flight
C14_Witness ==
    /\ Handled /\ request.method = "POST" /\ response.status = 201
    /\ \E e \in inflight : e.req.method = "POST" /\ e.seen # products

\* the id the :id segment of the last request denotes
RequestId == parseInt(ParamId(request))
Known == ~RequestId.nan /\ HasId(before, RequestId.n)

Without(store, i) == SubSeq(store, 1, i - 1) \o SubSeq(store, i + 1, Len(store))

\* C15: PUT and DELETE /api/products/:id with an id no record has answer 404
\* and leave the store unchanged; DELETE with the id of a record removes
\* exactly that record, keeps every other record and their order, and
\* returns the removed record in its 200 response.
C15_UnknownIdAndDelete ==
    /\ ((IsIdRequest("PUT") \/ IsIdRequest("DELETE")) /\ ~Known) =>
          (response.status = 404 /\ products = before)
    /\ (IsIdRequest("DELETE") /\ Known) =>
          /\ response.status = 200
          /\ \E i \in 1..Len(before) :
                /\ before[i].id = RequestId.n
                /\ products = Without(before, i)
                /\ response.body.deletedProduct = <<before[i]>>

\* a record that was not the last of five has been deleted, by a request
\* that was not the first
C15_Witness ==
    /\ IsIdRequest("DELETE") /\ response.status = 200
    /\ Len(before) = 5 /\ before[Len(before)].id # RequestId.n
    /\ nReq > 1

Present(v) == ~Nullish(v)
TypesFit == request.body.price.t = "number" /\ request.body.inStock.t = "boolean"
TypeReason ==
    IF request.body.price.t # "number"
    THEN "Price must be a number" ELSE "inStock must be boolean"

WrappedRan == \E k \in 1..Len(ran) : ran[k].handler = "createProduct2"

\* what the gate did with the payload, given whether its required fields
\* count as supplied
GateOutcome(required) ==
    IF required /\ TypesFit
    THEN WrappedRan /\ response.status = 201
    ELSE /\ ~WrappedRan /\ products = before
         /\ Cardinality(Responded) = 1
         /\ response.status = 400
         /\ response.body.error =
               IF required THEN TypeReason ELSE "All product fields are required"

\* C16 as stated: validateProduct lets a payload through iff name,
\* description, price, category and inStock are all present and non-null,
\* price is a number and inStock is a boolean; otherwise the wrapped handler
\* does not run and a single 400 names the first failing rule, in the order
\* required fields, price type, inStock type.
C16_GatePresentNonNull ==
    Handled => GateOutcome(\A f \in Fields : Present(request.body[f]))

\* C16 amended: the required-fields rule also fails when name, description
\* or category is falsy (the empty string, 0 or false); price and inStock
\* only have to be present and non-null.
C16_GateTruthy ==
    Handled =>
        GateOutcome(/\ \A f \in {"name", "description", "category"} : ~Falsy(request.body[f])
                    /\ \A f \in {"price", "inStock"} : Present(request.body[f]))

\* a payload whose price and inStock both have the wrong type was refused
C16_Witness ==
    /\ Handled /\ response.status = 400
    /\ ~Falsy(request.body.name)
    /\ request.body.price.t = "string" /\ request.body.inStock.t = "string"

\* the status the claim gives each kind of failure
DeclaredStatus(err) ==
    CASE err.name = "ValidationError"   -> 400
      [] err.name = "UnauthorizedError" -> 401
      [] err.name = "NotFoundError"     -> 404
      [] OTHER                          -> 500

Translated(err, res) ==
    /\ res.status = DeclaredStatus(err)
    /\ res.body = [message |-> err.message, status |-> "error", errorType |-> err.name]

Messages == {"Route not found", "No products match your search",
             "Please provide a search keyword", "Unauthorized"}
Failures ==
    {NotFoundError(m) : m \in Messages} \cup {ValidationError(m) : m \in Messages}
        \cup {UnauthorizedError(m) : m \in Messages} \cup {TypeError}

\* C17: for every failure that reaches the error middleware the response
\* status is the failure's declared status code (400 ValidationError, 401
\* UnauthorizedError, 404 NotFoundError), 500 for a failure that declares
\* none, and the body is {status: "error", errorType: <name>, message:
\* <message>}.
C17_ErrorsTranslated ==
    /\ \A k \in 1..Len(ran) :
          ran[k].handler = "errorHandler" =>
             /\ k > 1 /\ ran[k - 1].act = "error"
             /\ Translated(ran[k - 1].err, response)
    /\ \A err \in Failures : Translated(err, errorHandler(err))

\* a failure that declares no status code reached the error middleware
C17_Witness ==
    /\ Handled /\ ran[Len(ran)].handler = "errorHandler"
    /\ ran[Len(ran) - 1].err.statusCode = 0
    /\ response.status = 500

\* C18: in every reachable state the records of the store are ordered by
\* strictly increasing id, so the last record holds the greatest id.
C18_IdsIncreasing ==
    \A i \in 1..(Len(products) - 1) : products[i].id < products[i + 1].id

\* a record was created after a record that was not the last one had been
\* deleted
C18_Witness ==
    /\ Handled /\ request.method = "POST" /\ response.status = 201
    /\ Len(products) = 5 /\ products[1].id = 2 /\ products[5].id = 6

\* C19: every GET request leaves the store unchanged, a successful POST
\* appends exactly one record at the end, a successful DELETE removes
\* exactly one record, and a PUT never changes the number of records.
C19_Frame ==
    Handled =>
        /\ request.method = "GET" => products = before
        /\ (request.method = "POST" /\ response.status = 201) =>
              /\ Len(products) = Len(before) + 1
              /\ SubSeq(products, 1, Len(before)) = before
        /\ (request.method = "DELETE" /\ response.status = 200) =>
              Len(products) = Len(before) - 1
        /\ request.method = "PUT" => Len(products) = Len(before)

\* a GET was served from a store that earlier requests had changed
C19_Witness ==
    /\ Handled /\ request.method = "GET" /\ response.status = 200
    /\ products # InitialProducts /\ products = before

====
